---- MODULE Spec2Model ----
(***************************************************************************)
(* NASA-JSON-TO-CSV.py: RecopiladorDatosNASANeo (fetch with retry,         *)
(* pagination, normalisation/transformation, persistence) and main().      *)
(*                                                                         *)
(* Numbers are fixed-point hundredths (0.5 is 50, 1.2 is 120), so that the *)
(* halving of a sum of one-decimal values is exact, as it is in binary     *)
(* floating point for the halving step.                                    *)
(***************************************************************************)
EXTENDS Integers, Sequences, FiniteSets, TLC

VARIABLES
    pc,           \* position of the running code
    paginas,      \* the upstream API: near_earth_objects of page 0, 1, ...
    fin_api,      \* what the API answers past the last page
    pagina,       \* obtener_todos_datos: page index
    todos_datos,  \* obtener_todos_datos: accumulated raw records / procesar_datos input
    datos,        \* obtener_todos_datos: last value returned by obtener_datos
    intento,      \* obtener_datos: loop variable
    esperas,      \* time.sleep delays of the current obtener_datos call, in order
    peticiones,   \* page index of every requests.get issued, in order
    llamadas,     \* every obtener_datos call: page index and how it ended
    df,           \* procesar_datos result (DataFrame or the exception raised)
    archivos,     \* file system under the output directory: path -> content
    reloj,        \* wall clock, in ticks of 1/TicsPorSegundo second
    escritos,     \* what each guardar_datos call wrote: paths and content
    registro,     \* ERROR log entries, in order
    etapas,       \* stages main has entered, in order
    resultado     \* how main ended: "pendiente", "normal" or "relanzada"

vars == <<pc, paginas, fin_api, pagina, todos_datos, datos, intento, esperas,
          peticiones, llamadas, df, archivos, reloj, escritos, registro,
          etapas, resultado>>

----------------------------------------------------------------------------
(* JSON values.  Every leaf has the same shape; a dict carries its members. *)

Num(n)  == [t |-> "num",  n |-> n, s |-> <<>>]
Str(s)  == [t |-> "str",  n |-> 0, s |-> s]
Bool(b) == [t |-> "bool", n |-> IF b THEN 1 ELSE 0, s |-> <<>>]
Null    == [t |-> "null", n |-> 0, s |-> <<>>]
NaN     == [t |-> "nan",  n |-> 0, s |-> <<>>]
Dict(f) == [t |-> "dict", d |-> f]

VacioDict == [k \in {} |-> Null]

\* A record as the API returns it, every mapped field present.
RegistroCompleto(id, dmin, dmax) ==
    [id |-> Str(id),
     name |-> Str(<<"n">> \o id),
     absolute_magnitude_h |-> Num(2000),
     estimated_diameter |-> Dict(
         [kilometers |-> Dict([estimated_diameter_min |-> dmin,
                               estimated_diameter_max |-> dmax])]),
     is_potentially_hazardous_asteroid |-> Bool(FALSE),
     orbital_data |-> Dict([orbit_id |-> Str(<<"7">>),
                            semi_major_axis |-> Str(<<"1", ".", "5">>),
                            eccentricity |-> Str(<<"0", ".", "2">>)])]

----------------------------------------------------------------------------
(* procesar_datos                                                          *)

\* pd.json_normalize on one record: nested dicts become dotted columns.
RECURSIVE Flatten(_, _)
Flatten(d, prefix) ==
    UNION { IF d[k].t = "dict"
              THEN Flatten(d[k].d, Append(prefix, k))
              ELSE { <<Append(prefix, k), d[k]>> }
            : k \in DOMAIN d }

Columnas(plano) == { par[1] : par \in plano }

Celda(plano, col) ==
    IF col \in Columnas(plano)
      THEN (CHOOSE par \in plano : par[1] = col)[2]
      ELSE NaN

\* pd.json_normalize on the list: columns are the union over the records.
json_normalize(lista) ==
    LET planos == [i \in DOMAIN lista |-> Flatten(lista[i], <<>>)]
    IN  [columnas |-> UNION { Columnas(planos[i]) : i \in DOMAIN lista },
         filas    |-> planos]

mapeo_columnas ==
    << <<<<"id">>, "id_asteroide">>,
       <<<<"name">>, "nombre">>,
       <<<<"absolute_magnitude_h">>, "magnitud_absoluta">>,
       <<<<"estimated_diameter", "kilometers", "estimated_diameter_min">>, "diametro_min_km">>,
       <<<<"estimated_diameter", "kilometers", "estimated_diameter_max">>, "diametro_max_km">>,
       <<<<"is_potentially_hazardous_asteroid">>, "es_peligroso">>,
       <<<<"orbital_data", "orbit_id">>, "id_orbita">>,
       <<<<"orbital_data", "semi_major_axis">>, "semi_eje_mayor">>,
       <<<<"orbital_data", "eccentricity">>, "excentricidad">> >>

RutasMapeadas == { mapeo_columnas[i][1] : i \in DOMAIN mapeo_columnas }
NombresNuevos == { mapeo_columnas[i][2] : i \in DOMAIN mapeo_columnas }

columnas_numericas ==
    {"magnitud_absoluta", "diametro_min_km", "diametro_max_km",
     "semi_eje_mayor", "excentricidad"}

Digitos == {"0", "1", "2", "5", "7"}
ValorDigito(c) ==
    CASE c = "0" -> 0 [] c = "1" -> 1 [] c = "2" -> 2 [] c = "5" -> 5 [] c = "7" -> 7

\* Parsing of a numeric string: "d" and "d.d" are numbers, the rest is not.
ParseNum(s) ==
    IF Len(s) = 1 /\ s[1] \in Digitos
      THEN Num(100 * ValorDigito(s[1]))
    ELSE IF Len(s) = 3 /\ s[1] \in Digitos /\ s[2] = "." /\ s[3] \in Digitos
      THEN Num(100 * ValorDigito(s[1]) + 10 * ValorDigito(s[3]))
    ELSE NaN

\* pd.to_numeric(..., errors='coerce') on one cell.
to_numeric(celda) ==
    CASE celda.t = "num" -> celda
      [] celda.t = "str" -> ParseNum(celda.s)
      [] OTHER -> NaN

\* An average that forgets to halve.
PromedioSinDividir(dmin, dmax) ==
    IF dmin.t = "num" /\ dmax.t = "num"
      THEN Num(dmin.n + dmax.n)
      ELSE NaN

\* (df['diametro_min_km'] + df['diametro_max_km']) / 2 on one row.
Promedio(dmin, dmax) ==
    IF dmin.t = "num" /\ dmax.t = "num"
      THEN Num((dmin.n + dmax.n) \div 2)
      ELSE NaN

FilaProcesada(plano) ==
    LET ruta(nombre) ==
            mapeo_columnas[CHOOSE i \in DOMAIN mapeo_columnas :
                              mapeo_columnas[i][2] = nombre][1]
        sel == [nombre \in NombresNuevos |-> Celda(plano, ruta(nombre))]
        num == [nombre \in NombresNuevos |->
                   IF nombre \in columnas_numericas
                     THEN to_numeric(sel[nombre]) ELSE sel[nombre]]
    IN  [id_asteroide |-> num["id_asteroide"],
         nombre |-> num["nombre"],
         magnitud_absoluta |-> num["magnitud_absoluta"],
         diametro_min_km |-> num["diametro_min_km"],
         diametro_max_km |-> num["diametro_max_km"],
         es_peligroso |-> num["es_peligroso"],
         id_orbita |-> num["id_orbita"],
         semi_eje_mayor |-> num["semi_eje_mayor"],
         excentricidad |-> num["excentricidad"],
         diametro_promedio_km |-> Promedio(num["diametro_min_km"],
                                           num["diametro_max_km"])]

\* df[mapeo_columnas.keys()] raises KeyError for a column the frame lacks.
SeleccionFalla(normalizado) == ~(RutasMapeadas \subseteq normalizado.columnas)

procesar_datos(lista) ==
    IF lista = <<>>
      THEN [error |-> "ValueError", filas |-> <<>>]
    ELSE LET normalizado == json_normalize(lista)
         IN  IF SeleccionFalla(normalizado)
               THEN [error |-> "KeyError", filas |-> <<>>]
               ELSE [error |-> "ninguno",
                     filas |-> [i \in DOMAIN lista |->
                                   FilaProcesada(normalizado.filas[i])]]

----------------------------------------------------------------------------
(* The upstream API                                                        *)

MaxPaginas == 2        \* pages the API holds before it runs out, at most
MaxTam == 2            \* records per page, at most
TicsPorSegundo == 2    \* clock ticks per second

Caracter(d) ==
    CASE d = 0 -> "0" [] d = 1 -> "1" [] d = 2 -> "2" [] d = 3 -> "3"
      [] d = 4 -> "4" [] d = 5 -> "5" [] d = 6 -> "6" [] d = 7 -> "7"
      [] d = 8 -> "8" [] d = 9 -> "9"

\* Removes the leaf at a dotted path from a nested record.
RECURSIVE Quitar(_, _)
Quitar(d, ruta) ==
    IF Head(ruta) \notin DOMAIN d THEN d
    ELSE IF Len(ruta) = 1
      THEN [k \in DOMAIN d \ {Head(ruta)} |-> d[k]]
    ELSE [k \in DOMAIN d |->
             IF k = Head(ruta) /\ d[k].t = "dict"
               THEN Dict(Quitar(d[k].d, Tail(ruta)))
               ELSE d[k]]

\* Record j of page p (zero-based page, one-based position): ids never repeat.
RegistroApi(p, j, defecto) ==
    LET r == RegistroCompleto(<<Caracter(p), Caracter(j)>>, Num(50), Num(120))
    IN  IF defecto = "sin_excentricidad"
          THEN Quitar(r, <<"orbital_data", "eccentricity">>)
          ELSE r

PaginasApi(tam, defecto) ==
    [p \in DOMAIN tam |-> [j \in 1..tam[p] |-> RegistroApi(p - 1, j, defecto)]]

\* The JSON body the API serves for a page index.
Respuesta(p) ==
    IF p < Len(paginas)
      THEN [near_earth_objects |-> paginas[p + 1]]
    ELSE CASE fin_api = "vacia"   -> [near_earth_objects |-> <<>>]
           [] fin_api = "ausente" -> [page |-> Null]
           [] OTHER               -> VacioDict

----------------------------------------------------------------------------
(* obtener_datos                                                           *)

max_intentos == 3

None == [nulo |-> TRUE, json |-> VacioDict]
Json(j) == [nulo |-> FALSE, json |-> j]

\* A retry test that gives up one attempt early.
DebeReintentarCorto(i) == i < max_intentos - 2

\* if intento < max_intentos - 1
DebeReintentar(i) == i < max_intentos - 1

\* A linear back-off.
RetrocesoLineal(i) == 2 * i

\* time.sleep(2 ** intento)
Retroceso(i) == 2 ^ i

\* The value obtener_datos returns once every attempt has failed.
ValorAgotado == None

Dormir(segundos) == reloj' = reloj + segundos * TicsPorSegundo

\* requests.get succeeds and raise_for_status passes: return respuesta.json()
PeticionExito ==
    /\ pc = "peticion"
    /\ peticiones' = Append(peticiones, pagina)
    /\ datos' = Json(Respuesta(pagina))
    /\ llamadas' = Append(llamadas,
           [pagina |-> pagina, fin |-> "json",
            peticiones |-> intento + 1, esperas |-> esperas])
    /\ pc' = "pag_evaluar"
    /\ UNCHANGED <<paginas, fin_api, pagina, todos_datos, intento, esperas, df,
                   archivos, reloj, escritos, registro, etapas, resultado>>

\* RequestException on a non-final attempt: log, back off, continue
PeticionFallaReintenta ==
    /\ pc = "peticion"
    /\ DebeReintentar(intento)
    /\ peticiones' = Append(peticiones, pagina)
    /\ registro' = Append(registro, <<"ERROR", "intento", intento + 1>>)
    /\ esperas' = Append(esperas, Retroceso(intento))
    /\ Dormir(Retroceso(intento))
    /\ intento' = intento + 1
    /\ UNCHANGED <<pc, paginas, fin_api, pagina, todos_datos, datos, llamadas,
                   df, archivos, escritos, etapas, resultado>>

\* A final failed attempt that lets the exception escape to main.
PeticionFallaAgotaLanza ==
    /\ pc = "peticion"
    /\ ~DebeReintentar(intento)
    /\ peticiones' = Append(peticiones, pagina)
    /\ llamadas' = Append(llamadas,
           [pagina |-> pagina, fin |-> "None",
            peticiones |-> intento + 1, esperas |-> esperas])
    /\ registro' = Append(registro, <<"ERROR", "excepcion", "RequestException">>)
    /\ resultado' = "relanzada"
    /\ pc' = "fin"
    /\ UNCHANGED <<paginas, fin_api, pagina, todos_datos, datos, intento,
                   esperas, df, archivos, reloj, escritos, etapas>>

\* RequestException on the final attempt: log, return None
PeticionFallaAgota ==
    /\ pc = "peticion"
    /\ ~DebeReintentar(intento)
    /\ peticiones' = Append(peticiones, pagina)
    /\ registro' = Append(registro, <<"ERROR", "intento", intento + 1>>)
    /\ datos' = ValorAgotado
    /\ llamadas' = Append(llamadas,
           [pagina |-> pagina, fin |-> "None",
            peticiones |-> intento + 1, esperas |-> esperas])
    /\ pc' = "pag_evaluar"
    /\ UNCHANGED <<paginas, fin_api, pagina, todos_datos, intento, esperas, df,
                   archivos, reloj, escritos, etapas, resultado>>

----------------------------------------------------------------------------
(* obtener_todos_datos                                                     *)

limite_peticiones == 1

\* A loop test that does not stop on an empty collection.
EsFinSinVacio(d) ==
    IF d.nulo THEN TRUE
    ELSE IF DOMAIN d.json = {} THEN TRUE
    ELSE "near_earth_objects" \notin DOMAIN d.json

\* if not datos or 'near_earth_objects' not in datos or not datos[...]
EsFin(d) ==
    IF d.nulo THEN TRUE
    ELSE IF DOMAIN d.json = {} THEN TRUE
    ELSE IF "near_earth_objects" \notin DOMAIN d.json THEN TRUE
    ELSE Len(d.json.near_earth_objects) = 0

\* An accumulation that puts the new page first.
ExtenderAlFrente(acumulado, d) == d.json.near_earth_objects \o acumulado

\* todos_datos.extend(datos['near_earth_objects'])
Extender(acumulado, d) == acumulado \o d.json.near_earth_objects

\* pagina += 1
SiguientePagina(p) == p + 1

\* Loop head: parametros = {..., 'page': pagina}; self.obtener_datos(parametros)
PagLlamar ==
    /\ pc = "pag_llamar"
    /\ intento' = 0
    /\ esperas' = <<>>
    /\ pc' = "peticion"
    /\ UNCHANGED <<paginas, fin_api, pagina, todos_datos, datos, peticiones,
                   llamadas, df, archivos, reloj, escritos, registro, etapas,
                   resultado>>

\* The fetcher returned a page with records: accumulate, advance, rate-limit
PagAcumula ==
    /\ pc = "pag_evaluar"
    /\ ~EsFin(datos)
    /\ todos_datos' = Extender(todos_datos, datos)
    /\ pagina' = SiguientePagina(pagina)
    /\ Dormir(limite_peticiones)
    /\ pc' = "pag_llamar"
    /\ UNCHANGED <<paginas, fin_api, datos, intento, esperas, peticiones,
                   llamadas, df, archivos, escritos, registro, etapas, resultado>>

\* The fetcher returned None or no records: break, return todos_datos
PagTermina ==
    /\ pc = "pag_evaluar"
    /\ EsFin(datos)
    /\ pc' = "pag_fin"
    /\ UNCHANGED <<paginas, fin_api, pagina, todos_datos, datos, intento,
                   esperas, peticiones, llamadas, df, archivos, reloj, escritos,
                   registro, etapas, resultado>>

----------------------------------------------------------------------------
(* guardar_datos                                                           *)

\* datetime.now().strftime('%Y%m%d_%H%M%S'): the clock at one-second resolution
marca_tiempo(t) == t \div TicsPorSegundo

ruta_csv(marca) == <<"nasa_neo_datos", marca>>
ruta_informe(marca) == <<"nasa_neo_resumen", marca>>

Escribir(fs, ruta, contenido) ==
    [r \in DOMAIN fs \cup {ruta} |-> IF r = ruta THEN contenido ELSE fs[r]]

\* df.to_csv(ruta_csv, index=False)
ContenidoCsv(d) == [completo |-> TRUE, cuerpo |-> d.filas]

RECURSIVE Suma(_)
Suma(q) == IF q = <<>> THEN 0 ELSE Head(q) + Suma(Tail(q))

\* "Total de objetos: len(df)", "Objetos peligrosos: df['es_peligroso'].sum()"
ContenidoInforme(d) ==
    [completo |-> TRUE,
     cuerpo |-> <<Len(d.filas),
                  Suma([i \in DOMAIN d.filas |->
                           IF d.filas[i].es_peligroso.t = "bool"
                             THEN d.filas[i].es_peligroso.n ELSE 0])>>]

\* A file opened for writing whose write did not finish.
Parcial == [completo |-> FALSE, cuerpo |-> <<>>]

----------------------------------------------------------------------------
(* main                                                                    *)

\* A handler that logs and swallows the exception.
ExcepcionTragada(e) ==
    /\ registro' = Append(registro, <<"ERROR", "excepcion", e>>)
    /\ resultado' = "normal"
    /\ pc' = "fin"

\* except Exception as e: logging.error(...); raise
Excepcion(e) ==
    /\ registro' = Append(registro, <<"ERROR", "excepcion", e>>)
    /\ resultado' = "relanzada"
    /\ pc' = "fin"

\* An empty result handled by raising.
SinDatosLanza ==
    /\ registro' = Append(registro, <<"ERROR", "excepcion", "ValueError">>)
    /\ resultado' = "relanzada"
    /\ pc' = "fin"

\* else: logging.error("No se recuperaron datos de la API")
SinDatos ==
    /\ registro' = Append(registro, <<"ERROR", "sin_datos", "main">>)
    /\ resultado' = "normal"
    /\ pc' = "fin"

\* recopilador = RecopiladorDatosNASANeo(); recopilador.obtener_todos_datos()
MainInicio ==
    /\ pc = "main"
    /\ etapas' = Append(etapas, "obtener")
    /\ todos_datos' = <<>>
    /\ pagina' = 0
    /\ pc' = "pag_llamar"
    /\ UNCHANGED <<paginas, fin_api, datos, intento, esperas, peticiones,
                   llamadas, df, archivos, reloj, escritos, registro, resultado>>

\* if datos_crudos: ... else: logging.error(...)
MainSiDatos ==
    /\ pc = "pag_fin"
    /\ IF todos_datos # <<>>
         THEN /\ etapas' = Append(etapas, "procesar")
              /\ pc' = "procesar"
              /\ UNCHANGED <<registro, resultado>>
         ELSE /\ SinDatos
              /\ UNCHANGED etapas
    /\ UNCHANGED <<paginas, fin_api, pagina, todos_datos, datos, intento,
                   esperas, peticiones, llamadas, df, archivos, reloj, escritos>>

\* df = recopilador.procesar_datos(datos_crudos)
MainProcesar ==
    /\ pc = "procesar"
    /\ df' = procesar_datos(todos_datos)
    /\ IF df'.error = "ninguno"
         THEN /\ etapas' = Append(etapas, "guardar")
              /\ pc' = "guardar_csv"
              /\ UNCHANGED <<registro, resultado>>
         ELSE /\ Excepcion(df'.error)
              /\ UNCHANGED etapas
    /\ UNCHANGED <<paginas, fin_api, pagina, todos_datos, datos, intento,
                   esperas, peticiones, llamadas, archivos, reloj, escritos>>

\* guardar_datos up to df.to_csv: mkdir, timestamp, CSV written
GuardarCsv ==
    /\ pc = "guardar_csv"
    /\ archivos' = Escribir(archivos, ruta_csv(marca_tiempo(reloj)), ContenidoCsv(df))
    /\ escritos' = Append(escritos,
           [marca |-> marca_tiempo(reloj), csv |-> ContenidoCsv(df),
            informe |-> ContenidoInforme(df)])
    /\ pc' = "guardar_informe"
    /\ UNCHANGED <<paginas, fin_api, pagina, todos_datos, datos, intento,
                   esperas, peticiones, llamadas, df, reloj, registro, etapas,
                   resultado>>

\* mkdir or to_csv raises OSError: before the file exists, or part-way through
GuardarCsvFalla ==
    /\ pc = "guardar_csv"
    /\ \E creado \in BOOLEAN :
          archivos' = IF creado
                        THEN Escribir(archivos, ruta_csv(marca_tiempo(reloj)), Parcial)
                        ELSE archivos
    /\ Excepcion("OSError")
    /\ UNCHANGED <<paginas, fin_api, pagina, todos_datos, datos, intento,
                   esperas, peticiones, llamadas, df, reloj, escritos, etapas>>

\* guardar_datos from open(ruta_informe, 'w') to the end
GuardarInforme ==
    /\ pc = "guardar_informe"
    /\ archivos' = Escribir(archivos, ruta_informe(marca_tiempo(reloj)),
                            ContenidoInforme(df))
    /\ pc' = "resumen"
    /\ UNCHANGED <<paginas, fin_api, pagina, todos_datos, datos, intento,
                   esperas, peticiones, llamadas, df, reloj, escritos, registro,
                   etapas, resultado>>

\* open or f.write raises: before the report exists, or part-way through
GuardarInformeFalla ==
    /\ pc = "guardar_informe"
    /\ \E creado \in BOOLEAN :
          archivos' = IF creado
                        THEN Escribir(archivos, ruta_informe(marca_tiempo(reloj)), Parcial)
                        ELSE archivos
    /\ Excepcion("OSError")
    /\ UNCHANGED <<paginas, fin_api, pagina, todos_datos, datos, intento,
                   esperas, peticiones, llamadas, df, reloj, escritos, etapas>>

\* print(df.describe()); main returns
MainResumen ==
    /\ pc = "resumen"
    /\ resultado' = "normal"
    /\ pc' = "fin"
    /\ UNCHANGED <<paginas, fin_api, pagina, todos_datos, datos, intento,
                   esperas, peticiones, llamadas, df, archivos, reloj, escritos,
                   registro, etapas>>

----------------------------------------------------------------------------
(* One run of main against an API of bounded size                          *)

SinArchivos == [r \in {} |-> Parcial]
SinDf == [error |-> "pendiente", filas |-> <<>>]

Init ==
    /\ pc = "main"
    /\ \E n \in 0..MaxPaginas :
       \E tam \in [1..n -> 0..MaxTam] :
       \E defecto \in {"ninguno", "sin_excentricidad"} :
          paginas = PaginasApi(tam, defecto)
    /\ fin_api \in {"vacia", "ausente", "objeto_vacio"}
    /\ pagina = 0
    /\ todos_datos = <<>>
    /\ datos = None
    /\ intento = 0
    /\ esperas = <<>>
    /\ peticiones = <<>>
    /\ llamadas = <<>>
    /\ df = SinDf
    /\ archivos = SinArchivos
    /\ reloj = 0
    /\ escritos = <<>>
    /\ registro = <<>>
    /\ etapas = <<>>
    /\ resultado = "pendiente"

Next ==
    \/ MainInicio
    \/ PagLlamar
    \/ PeticionExito
    \/ PeticionFallaReintenta
    \/ PeticionFallaAgota
    \/ PagAcumula
    \/ PagTermina
    \/ MainSiDatos
    \/ MainProcesar
    \/ GuardarCsv
    \/ GuardarCsvFalla
    \/ GuardarInforme
    \/ GuardarInformeFalla
    \/ MainResumen

Spec == Init /\ [][Next]_vars

----------------------------------------------------------------------------
(* Properties of one run                                                   *)

RECURSIVE Cuenta(_, _)
Cuenta(q, x) ==
    IF q = <<>> THEN 0
    ELSE (IF Head(q) = x THEN 1 ELSE 0) + Cuenta(Tail(q), x)

\* Records of pages 0 .. k-1 of the API, page by page, in page order.
RECURSIVE Primeras(_)
Primeras(k) == IF k = 0 THEN <<>> ELSE Primeras(k - 1) \o paginas[k]

RECURSIVE SumaTam(_)
SumaTam(k) == IF k = 0 THEN 0 ELSE SumaTam(k - 1) + Len(paginas[k])

Ultima(q) == q[Len(q)]

EsPrefijo(q, r) == Len(q) <= Len(r) /\ \A i \in DOMAIN q : q[i] = r[i]

\* Whether the API has no records for page index p.
SinRegistros(p) == IF p >= Len(paginas) THEN TRUE ELSE Len(paginas[p + 1]) = 0

\* Index of the first page without records.
PrimerVacio == CHOOSE k \in 0..Len(paginas) :
                  SinRegistros(k) /\ \A j \in 0..(k - 1) : ~SinRegistros(j)

\* An obtener_datos call after which the paginator must stop.
Terminal(c) == IF c.fin = "None" THEN TRUE ELSE SinRegistros(c.pagina)

Agotada == llamadas # <<>> /\ Ultima(llamadas).fin = "None"
PaginaVacia == llamadas # <<>> /\ Ultima(llamadas).fin = "json"
                /\ SinRegistros(Ultima(llamadas).pagina)

Retornado == pc \notin {"main", "pag_llamar", "peticion", "pag_evaluar"}

\* C1: an obtener_datos call whose first k attempts (k in 0..2) fail and
\* whose attempt k+1 succeeds issues exactly k+1 requests, sleeps exactly k
\* times with delays 1, 2 in that order, and returns that attempt's JSON.
C1_ReintentoExito ==
    /\ \A i \in DOMAIN llamadas :
          llamadas[i].fin = "json" =>
             LET k == Len(llamadas[i].esperas)
             IN  /\ k \in 0..2
                 /\ Cuenta(peticiones, llamadas[i].pagina) = k + 1
                 /\ llamadas[i].esperas = [j \in 1..k |-> 2 ^ (j - 1)]
                 /\ llamadas[i].esperas \in {<<>>, <<1>>, <<1, 2>>}
    /\ (pc = "pag_evaluar" /\ Ultima(llamadas).fin = "json") =>
          /\ ~datos.nulo
          /\ datos.json = Respuesta(pagina)

C1_Witness ==
    /\ pc = "pag_evaluar"
    /\ Ultima(llamadas).fin = "json"
    /\ Ultima(llamadas).esperas = <<1, 2>>
    /\ Cuenta(peticiones, pagina) = 3

\* C2: when every attempt of an obtener_datos call fails, the call makes
\* exactly 3 attempts, returns None without raising, and control is back in
\* the paginator; no call ever makes a 4th attempt.
C2_Agotamiento ==
    /\ \A p \in 0..Len(paginas) : Cuenta(peticiones, p) <= 3
    /\ \A i \in DOMAIN llamadas :
          llamadas[i].fin = "None" =>
             /\ Cuenta(peticiones, llamadas[i].pagina) = 3
             /\ llamadas[i].esperas = <<1, 2>>
    /\ (pc = "pag_evaluar" /\ Ultima(llamadas).fin = "None") =>
          /\ datos.nulo
          /\ resultado = "pendiente"
          /\ registro = [j \in 1..Len(registro) |-> <<"ERROR", "intento", registro[j][3]>>]

C2_Witness ==
    /\ pc = "pag_evaluar"
    /\ Ultima(llamadas).fin = "None"
    /\ Cuenta(peticiones, pagina) = 3

\* C3: the first obtener_datos call that returns None, or a response whose
\* near_earth_objects is missing or empty, is the last one of the run: no
\* request for a later page index follows and the paginator returns.
C3_TerminaEnPrimeraVacia ==
    \A i \in DOMAIN llamadas :
       Terminal(llamadas[i]) =>
          /\ i = Len(llamadas)
          /\ pc \notin {"pag_llamar", "peticion"}
          /\ pagina = llamadas[i].pagina
          /\ \A j \in DOMAIN peticiones : peticiones[j] <= llamadas[i].pagina
          /\ Cuenta(peticiones, llamadas[i].pagina) = llamadas[i].peticiones

C3_Witness ==
    /\ pc = "fin"
    /\ PaginaVacia
    /\ Ultima(llamadas).pagina + 1 < Len(paginas)
    /\ Len(paginas[Len(paginas)]) > 0

\* C4: when pages 0..k-1 are non-empty, page k is empty and every page is
\* served, the returned list is the concatenation of pages 0..k-1 in page
\* order and within-page order, its length is the sum of the page sizes,
\* the paginator asks for each page index exactly once, and no record
\* appears twice.
C4_Concatenacion ==
    (Retornado /\ PaginaVacia) =>
       /\ todos_datos = Primeras(PrimerVacio)
       /\ Len(todos_datos) = SumaTam(PrimerVacio)
       /\ Len(llamadas) = PrimerVacio + 1
       /\ \A i \in DOMAIN llamadas : llamadas[i].pagina = i - 1
       /\ \A i, j \in DOMAIN todos_datos : i # j => todos_datos[i] # todos_datos[j]

C4_Witness ==
    /\ pc = "pag_fin"
    /\ PaginaVacia
    /\ PrimerVacio >= 2
    /\ Len(todos_datos) >= 3

ArchivosDeLaCorrida ==
    { r \in DOMAIN archivos :
         r \in {ruta_csv(marca_tiempo(reloj)), ruta_informe(marca_tiempo(reloj))} }

Registrada(e) == registro # <<>> /\ Ultima(registro) = <<"ERROR", "excepcion", e>>

\* C5 as stated: in a run that fetched zero records, procesar_datos fails
\* with the "no data" condition, the run ends as a re-raised failure that is
\* logged, and no CSV and no report is created.
C5_Original ==
    (pc = "fin" /\ todos_datos = <<>>) =>
       /\ df.error = "ValueError"
       /\ resultado = "relanzada"
       /\ registro # <<>>
       /\ archivos = SinArchivos

\* C5 amended: in a run that fetched zero records, main never calls
\* procesar_datos (which would raise the "no data" ValueError on that empty
\* list); it logs an error and returns normally without raising, and no CSV
\* and no report is created.
C5_SinDatosSalidaNormal ==
    (pc = "fin" /\ todos_datos = <<>>) =>
       /\ procesar_datos(todos_datos).error = "ValueError"
       /\ df = SinDf
       /\ etapas = <<"obtener">>
       /\ resultado = "normal"
       /\ Ultima(registro) = <<"ERROR", "sin_datos", "main">>
       /\ archivos = SinArchivos

C5_Witness ==
    /\ pc = "fin"
    /\ todos_datos = <<>>
    /\ PaginaVacia
    /\ resultado = "normal"

\* C6 as stated: the stages run in strict sequence, and whenever a stage
\* fails the failure is logged, the run ends re-raised, and neither the CSV
\* nor the report of that run exists afterwards.
C6_Original ==
    /\ EsPrefijo(etapas, <<"obtener", "procesar", "guardar">>)
    /\ (pc = "fin" /\ resultado = "relanzada") =>
          /\ \E e \in {"KeyError", "ValueError", "OSError"} : Registrada(e)
          /\ ArchivosDeLaCorrida = {}

\* C6 amended: the stages run in strict sequence, and whenever a stage
\* raises the failure is logged, the run ends re-raised and no later stage
\* runs; a transform failure leaves no output file, but a save failure is
\* not cleaned up: a failure after the CSV was written leaves the complete
\* CSV of the run (and possibly a partly written report) in place, and a
\* failure inside to_csv can leave a partly written CSV.
C6_SecuenciaSinLimpieza ==
    /\ EsPrefijo(etapas, <<"obtener", "procesar", "guardar">>)
    /\ (pc = "fin" /\ resultado = "relanzada") =>
          /\ \E e \in {"KeyError", "ValueError", "OSError"} : Registrada(e)
          /\ Ultima(etapas) \in {"procesar", "guardar"}
          /\ Ultima(etapas) = "procesar" => (df.error # "ninguno" /\ archivos = SinArchivos)
          /\ Ultima(etapas) = "guardar" =>
                /\ Registrada("OSError")
                /\ \A r \in DOMAIN archivos :
                      r[1] = "nasa_neo_resumen" => ~archivos[r].completo
                /\ escritos # <<>> =>
                      /\ ruta_csv(marca_tiempo(reloj)) \in DOMAIN archivos
                      /\ archivos[ruta_csv(marca_tiempo(reloj))] = ContenidoCsv(df)
    /\ (pc = "fin" /\ resultado = "normal" /\ todos_datos # <<>>) =>
          /\ etapas = <<"obtener", "procesar", "guardar">>
          /\ archivos[ruta_csv(marca_tiempo(reloj))] = ContenidoCsv(df)
          /\ archivos[ruta_informe(marca_tiempo(reloj))] = ContenidoInforme(df)

C6_Witness ==
    /\ pc = "fin"
    /\ resultado = "relanzada"
    /\ Registrada("OSError")
    /\ ruta_csv(marca_tiempo(reloj)) \in DOMAIN archivos
    /\ archivos[ruta_csv(marca_tiempo(reloj))].completo
    /\ ruta_informe(marca_tiempo(reloj)) \in DOMAIN archivos

\* C10: when obtener_datos exhausts its retries on page k >= 1 after pages
\* 0..k-1 returned records, obtener_todos_datos returns the records of pages
\* 0..k-1 unchanged, exactly as on an empty page k, and main processes and
\* saves that partial dataset and ends with a normal outcome.
C10_AgotamientoComoFin ==
    /\ (Retornado /\ llamadas # <<>>) =>
          /\ todos_datos = Primeras(pagina)
          /\ pagina = Ultima(llamadas).pagina
    /\ (Retornado /\ Agotada /\ pagina >= 1) =>
          /\ todos_datos # <<>>
          /\ pc # "pag_fin" => EsPrefijo(<<"obtener", "procesar">>, etapas)
          /\ pc = "fin" =>
                \/ /\ resultado = "normal"
                   /\ archivos[ruta_csv(marca_tiempo(reloj))].cuerpo
                         = procesar_datos(Primeras(pagina)).filas
                   /\ archivos[ruta_informe(marca_tiempo(reloj))].completo
                \/ /\ resultado = "relanzada"
                   /\ Registrada("KeyError") \/ Registrada("OSError")

C10_Witness ==
    /\ pc = "fin"
    /\ Agotada
    /\ pagina >= 1
    /\ pagina < Len(paginas)
    /\ resultado = "normal"
    /\ archivos[ruta_csv(marca_tiempo(reloj))].cuerpo = procesar_datos(Primeras(pagina)).filas

----------------------------------------------------------------------------
(* procesar_datos on bounded lists of raw records                          *)

MaxRegistros == 2      \* records in one procesar_datos input, at most

\* Raw values a diameter field can hold: numbers, numeric and non-numeric
\* strings, null.
ValoresCrudos ==
    {Num(50), Num(120), Str(<<"0", ".", "5">>), Str(<<"x">>), Null}

\* The record with a mapped path taken away: its leaf removed, or the
\* top-level member that leads to it set to null.
SinRuta(r, ruta, modo) ==
    IF modo = "hoja"
      THEN Quitar(r, ruta)
      ELSE [k \in DOMAIN r |-> IF k = Head(ruta) THEN Null ELSE r[k]]

InitProc ==
    /\ pc = "proc_entrada"
    /\ \E n \in 1..MaxRegistros :
       \E variado \in 1..n :
       \E dmin \in ValoresCrudos :
       \E dmax \in ValoresCrudos :
       \E ruta \in RutasMapeadas :
       \E modo \in {"hoja", "rama"} :
       \E faltan \in SUBSET (1..n) :
          todos_datos =
             [i \in 1..n |->
                 LET r == IF i = variado
                            THEN RegistroCompleto(<<Caracter(i)>>, dmin, dmax)
                            ELSE RegistroCompleto(<<Caracter(i)>>, Num(50), Num(120))
                 IN  IF i \in faltan THEN SinRuta(r, ruta, modo) ELSE r]
    /\ paginas = <<>>
    /\ fin_api = "vacia"
    /\ pagina = 0
    /\ datos = None
    /\ intento = 0
    /\ esperas = <<>>
    /\ peticiones = <<>>
    /\ llamadas = <<>>
    /\ df = SinDf
    /\ archivos = SinArchivos
    /\ reloj = 0
    /\ escritos = <<>>
    /\ registro = <<>>
    /\ etapas = <<>>
    /\ resultado = "pendiente"

\* df = procesar_datos(datos)
ProcLlamada ==
    /\ pc = "proc_entrada"
    /\ df' = procesar_datos(todos_datos)
    /\ pc' = "proc_hecho"
    /\ UNCHANGED <<paginas, fin_api, pagina, todos_datos, datos, intento,
                   esperas, peticiones, llamadas, archivos, reloj, escritos,
                   registro, etapas, resultado>>

NextProc == ProcLlamada

SpecProc == InitProc /\ [][NextProc]_vars

\* Dotted-path access into one raw record: whether the path leads to a leaf.
RECURSIVE Presente(_, _)
Presente(d, ruta) ==
    IF Head(ruta) \notin DOMAIN d THEN FALSE
    ELSE IF Len(ruta) = 1 THEN d[Head(ruta)].t # "dict"
    ELSE IF d[Head(ruta)].t = "dict" THEN Presente(d[Head(ruta)].d, Tail(ruta))
    ELSE FALSE

NombreDe(ruta) ==
    mapeo_columnas[CHOOSE i \in DOMAIN mapeo_columnas : mapeo_columnas[i][1] = ruta][2]

AusenteEnTodos(ruta) == \A i \in DOMAIN todos_datos : ~Presente(todos_datos[i], ruta)

\* C7 as stated: for a non-empty list, procesar_datos does not raise when a
\* mapped path is absent from a record, whether from some records or from
\* every record: that field of that row is the missing marker.
C7_RutaAusenteEsFaltante ==
    pc = "proc_hecho" =>
       /\ df.error = "ninguno"
       /\ \A i \in DOMAIN todos_datos : \A ruta \in RutasMapeadas :
             ~Presente(todos_datos[i], ruta) => df.filas[i][NombreDe(ruta)] = NaN

\* C8: in every row produced, diametro_promedio_km is (min + max) / 2 when
\* both coerced operands are present and the missing marker when one is
\* missing or unparsable; an unparsable numeric value never raises.
C8_Promedio ==
    pc = "proc_hecho" =>
       /\ df.error \in {"ninguno", "KeyError"}
       /\ df.error = "KeyError" => \E ruta \in RutasMapeadas : AusenteEnTodos(ruta)
       /\ df.error = "ninguno" =>
             \A i \in DOMAIN df.filas :
                LET f == df.filas[i]
                IN  /\ f.diametro_min_km.t \in {"num", "nan"}
                    /\ f.diametro_max_km.t \in {"num", "nan"}
                    /\ IF f.diametro_min_km.t = "num" /\ f.diametro_max_km.t = "num"
                         THEN /\ f.diametro_promedio_km.t = "num"
                              /\ 2 * f.diametro_promedio_km.n
                                    = f.diametro_min_km.n + f.diametro_max_km.n
                         ELSE f.diametro_promedio_km = NaN

C8_Witness ==
    /\ pc = "proc_hecho"
    /\ df.error = "ninguno"
    /\ Len(df.filas) = 2
    /\ df.filas[1].diametro_min_km = Num(50)
    /\ df.filas[1].diametro_max_km = Num(120)
    /\ df.filas[1].diametro_promedio_km = Num(85)
    /\ Presente(todos_datos[2], <<"estimated_diameter", "kilometers", "estimated_diameter_min">>)
    /\ todos_datos[2].estimated_diameter.d.kilometers.d.estimated_diameter_min = Str(<<"x">>)
    /\ df.filas[2].diametro_promedio_km = NaN

----------------------------------------------------------------------------
(* Successive guardar_datos calls into one output directory                *)

MaxLlamadas == 3       \* guardar_datos calls, at most
MaxReloj == 4          \* clock ticks, at most

\* The data frames handed to guardar_datos.
Marcos ==
    { procesar_datos(<<RegistroCompleto(<<c>>, Num(50), Num(120))>>) : c \in {"1", "2"} }

InitGuardar ==
    /\ pc = "inactivo"
    /\ paginas = <<>>
    /\ fin_api = "vacia"
    /\ pagina = 0
    /\ todos_datos = <<>>
    /\ datos = None
    /\ intento = 0
    /\ esperas = <<>>
    /\ peticiones = <<>>
    /\ llamadas = <<>>
    /\ df = SinDf
    /\ archivos = SinArchivos
    /\ reloj = 0
    /\ escritos = <<>>
    /\ registro = <<>>
    /\ etapas = <<>>
    /\ resultado = "pendiente"

\* recopilador.guardar_datos(df) is called
GuardarLlamada ==
    /\ pc = "inactivo"
    /\ Len(escritos) < MaxLlamadas
    /\ df' \in Marcos
    /\ pc' = "guardar_csv"
    /\ UNCHANGED <<paginas, fin_api, pagina, todos_datos, datos, intento,
                   esperas, peticiones, llamadas, archivos, reloj, escritos,
                   registro, etapas, resultado>>

\* guardar_datos returns
GuardarRetorna ==
    /\ pc = "resumen"
    /\ pc' = "inactivo"
    /\ UNCHANGED <<paginas, fin_api, pagina, todos_datos, datos, intento,
                   esperas, peticiones, llamadas, df, archivos, reloj, escritos,
                   registro, etapas, resultado>>

\* Time passes between two calls.
Tic ==
    /\ pc = "inactivo"
    /\ reloj < MaxReloj
    /\ reloj' = reloj + 1
    /\ UNCHANGED <<pc, paginas, fin_api, pagina, todos_datos, datos, intento,
                   esperas, peticiones, llamadas, df, archivos, escritos,
                   registro, etapas, resultado>>

NextGuardar ==
    \/ GuardarLlamada
    \/ GuardarCsv
    \/ GuardarInforme
    \/ GuardarRetorna
    \/ Tic

SpecGuardar == InitGuardar /\ [][NextGuardar]_vars

\* C9 as stated: across any sequence of guardar_datos calls into one
\* directory, no call writes its CSV or its report to a path an earlier call
\* wrote, so the files of every earlier call still hold that call's content.
C9_SinSobrescritura ==
    pc = "inactivo" =>
       /\ \A i, j \in DOMAIN escritos : i # j => escritos[i].marca # escritos[j].marca
       /\ \A i \in DOMAIN escritos :
             /\ archivos[ruta_csv(escritos[i].marca)] = escritos[i].csv
             /\ archivos[ruta_informe(escritos[i].marca)] = escritos[i].informe

====
